---- MODULE Spec2Model ----
(***************************************************************************)
(* Model of the upload-and-results client, src/frontend/app.js.            *)
(*                                                                         *)
(* The client is single threaded: every event handler runs to completion,  *)
(* and processFiles suspends at its two awaits (the fetch and the body     *)
(* read), where other handlers may run.  A promise's continuation runs as  *)
(* a microtask, before any further event, so the settling of an awaited    *)
(* promise and the code up to the next await form one step.                *)
(*                                                                         *)
(* JavaScript values are tagged records ([t |-> "undef"], [t |-> "num",    *)
(* n |-> 925], ...).  A JavaScript string is a sequence of tokens; a token *)
(* is one of the characters "&", "<", ">" or a chunk of text holding none  *)
(* of them.  Confidences are held in tenths of a percent.                  *)
(***************************************************************************)
EXTENDS Integers, Sequences, FiniteSets, TLC

\* ------------------------------------------------------------------ bounds

\* Longest pending list explored.
MaxFiles == 2

\* Most files carried by one drop or one file-dialog selection.
MaxBatch == 2

\* Most invocations of processFiles suspended at one time.
MaxCalls == 2

\* Latest reading of the wall clock (Date.now()), in tenths of a second.
MaxTime == 0

\* Most clipboard writes pending at one time.
MaxCopies == 1

\* ------------------------------------------------------- JavaScript values

Undef == [t |-> "undef"]
Null == [t |-> "null"]
Num(n) == [t |-> "num", n |-> n]
Str(s) == [t |-> "str", s |-> s]
Bool(b) == [t |-> "bool", b |-> b]
Arr(a) == [t |-> "arr", a |-> a]

\* ToBoolean: undefined, null, 0, "" and false are falsy (operands of ||, !, ?:).
Truthy(v) ==
    CASE v.t = "undef" -> FALSE
      [] v.t = "null" -> FALSE
      [] v.t = "num" -> v.n # 0
      [] v.t = "str" -> v.s # << >>
      [] v.t = "bool" -> v.b
      [] OTHER -> TRUE

\* a || b
Or(a, b) == IF Truthy(a) THEN a ELSE b

\* ------------------------------------------------------------------ files

\* The files the user can pick: a PDF, an image, and a file of another type.
PdfFile == [name |-> <<"scan.pdf">>, type |-> <<"application", "pdf">>, size |-> 512]
ImgFile == [name |-> <<"photo.png">>, type |-> <<"image", "png">>, size |-> 2048]
TxtFile == [name |-> <<"notes.txt">>, type |-> <<"text", "plain">>, size |-> 3145728]
Files == {PdfFile, ImgFile, TxtFile}

\* What one drop or one file-dialog selection may carry (possibly nothing).
Batches == UNION {[1..n -> Files] : n \in 0..MaxBatch}

KiB == 1024
MiB == 1048576

\* Number.prototype.toFixed(1) of num/den for den a power of two (the quotient
\* is exact): the nearest tenth, the larger one on a tie.
ToFixed1(num, den) ==
    LET tenths == (num * 20 + den) \div (2 * den)
    IN  <<ToString(tenths \div 10), ".", ToString(tenths % 10)>>

formatSize(bytes) ==
    IF bytes < KiB THEN <<ToString(bytes), " B">>
    ELSE IF bytes < MiB THEN ToFixed1(bytes, KiB) \o <<" KB">>
    ELSE ToFixed1(bytes, MiB) \o <<" MB">>

\* Variant of DropAccepts: a file of any type passes.
DropAcceptsAny(f) == TRUE

\* The drop handler's filter: f.type === 'application/pdf' || f.type.startsWith('image/')
DropAccepts(f) == f.type = <<"application", "pdf">> \/ f.type[1] = "image"

\* Variant of Splice: the last element is removed whatever the start (a pop).
SpliceLast(arr, start, deleteCount) ==
    [k \in 1..(IF Len(arr) = 0 THEN 0 ELSE Len(arr) - 1) |-> arr[k]]

\* Array.prototype.splice(start, deleteCount) on arr: the array left behind.
\* A negative start counts from the end; start and deleteCount are clamped.
Splice(arr, start, deleteCount) ==
    LET len == Len(arr)
        from == IF start < 0
                THEN (IF len + start > 0 THEN len + start ELSE 0)
                ELSE (IF start < len THEN start ELSE len)
        cnt0 == IF deleteCount > 0 THEN deleteCount ELSE 0
        cnt == IF cnt0 < len - from THEN cnt0 ELSE len - from
    IN  [k \in 1..(len - cnt) |-> IF k <= from THEN arr[k] ELSE arr[k + cnt]]

\* ------------------------------------------------------------ OCR results

IsNullish(v) == v.t \in {"undef", "null"}

\* String(v) for the values a response can carry (an array is not among the
\* values the client turns into text).
JsToString(v) ==
    CASE v.t = "str" -> v.s
      [] v.t = "num" -> <<ToString(v.n)>>
      [] v.t = "bool" -> IF v.b THEN <<"true">> ELSE <<"false">>
      [] v.t = "nan" -> <<"NaN">>
      [] v.t = "undef" -> <<"undefined">>
      [] v.t = "null" -> <<"null">>
      [] OTHER -> <<"[object Object]">>

NaN == [t |-> "nan"]

\* parseFloat: a number stays itself; what is no number (and no numeric
\* string, which the model's responses do not carry) gives NaN.
ParseFloat(v) == IF v.t = "num" THEN v ELSE NaN

\* conf >= k, false for NaN.
Ge(conf, k) == conf.t = "num" /\ conf.n >= k

\* conf.toFixed(1) for a confidence held in tenths.
ConfFixed1(conf) ==
    IF conf.t = "num"
    THEN <<ToString(conf.n \div 10), ".", ToString(conf.n % 10)>>
    ELSE <<"NaN">>

\* Number.prototype.toLocaleString() (en-US grouping) below one million;
\* String.prototype.toLocaleString() is the string itself.
Pad3(n) ==
    IF n < 10 THEN "00" \o ToString(n)
    ELSE IF n < 100 THEN "0" \o ToString(n)
    ELSE ToString(n)

ToLocaleString(v) ==
    IF v.t = "num" /\ v.n >= 1000
    THEN <<ToString(v.n \div 1000), ",", Pad3(v.n % 1000)>>
    ELSE JsToString(v)

RECURSIVE ReplaceAll(_, _, _)
\* str.replace(/c/g, by): every token c of str replaced by the tokens by.
ReplaceAll(str, c, by) ==
    IF str = << >> THEN << >>
    ELSE (IF Head(str) = c THEN by ELSE <<Head(str)>>) \o ReplaceAll(Tail(str), c, by)

\* Variant of escapeHtml: '&' is replaced last.
escapeHtmlAmpLast(str) ==
    ReplaceAll(ReplaceAll(ReplaceAll(str, "<", <<"&", "lt;">>),
                          ">", <<"&", "gt;">>),
               "&", <<"&", "amp;">>)

escapeHtml(str) ==
    ReplaceAll(ReplaceAll(ReplaceAll(str, "&", <<"&", "amp;">>),
                          "<", <<"&", "lt;">>),
               ">", <<"&", "gt;">>)

\* Variant of PageConfClass: the thresholds taken as strict.
PageConfClassStrict(conf) ==
    IF conf.t = "num" /\ conf.n > 900 THEN "high"
    ELSE IF conf.t = "num" /\ conf.n > 700 THEN "mid" ELSE "low"

\* The two tierings of a confidence: the summary's and a page's.
SummaryConfClass(conf) ==
    IF Ge(conf, 900) THEN "green" ELSE IF Ge(conf, 700) THEN "yellow" ELSE "red"

PageConfClass(conf) ==
    IF Ge(conf, 900) THEN "high" ELSE IF Ge(conf, 700) THEN "mid" ELSE "low"

\* The message of the TypeError raised by reading a property of v.
TypeErrorMsg(v) == <<"Cannot read properties of ">> \o JsToString(v)

\* One entry of the per-page list, as the markup the template inserts.
PageItem(page, k) ==
    LET i == k - 1
        num == Or(page.page_number, Num(i + 1))
        conf == ParseFloat(Or(page.confidence, Num(0)))
        words == Or(page.word_count, Num(0))
    IN  [bodyId |-> <<"page-body-", ToString(i)>>,
         chevId |-> <<"chev-", ToString(i)>>,
         numHtml |-> JsToString(num),
         confClass |-> PageConfClass(conf),
         confHtml |-> ConfFixed1(conf) \o <<"%">>,
         wordsHtml |-> JsToString(words),
         textHtml |-> escapeHtml(Or(page.text, Str(<<"No text">>)).s)]

\* The callback of pages.forEach throws on a page that is null or undefined
\* (page.page_number) and on a page whose text is truthy and no string
\* (str.replace is not a function).
PageThrows(page) ==
    IsNullish(page) \/ (Truthy(page.text) /\ page.text.t # "str")

PageThrowMsg(page) ==
    IF IsNullish(page) THEN TypeErrorMsg(page) ELSE <<"str.replace is not a function">>

\* The first page on which the callback throws, 0 when there is none.
FirstThrow(a) ==
    IF \E k \in 1..Len(a) : PageThrows(a[k])
    THEN CHOOSE k \in 1..Len(a) :
            PageThrows(a[k]) /\ \A j \in 1..(k - 1) : ~PageThrows(a[j])
    ELSE 0

\* Variant of renderPages: the section is hidden and the old entries are kept.
renderPagesKeepList(d, pages) ==
    IF ~Truthy(pages) \/ Len(pages.a) <= 1
    THEN [dom |-> [d EXCEPT !.pagesSection = "none"], threw |-> FALSE, msg |-> << >>]
    ELSE [dom |-> [d EXCEPT !.pagesSection = "block",
                            !.pagesList = [k \in 1..Len(pages.a) |-> PageItem(pages.a[k], k)]],
          threw |-> FALSE, msg |-> << >>]

\* renderPages(pages) on the document d: the document left behind, and
\* whether (and with what message) it threw.
renderPages(d, pages) ==
    LET d1 == [d EXCEPT !.pagesList = << >>]
    IN  IF ~Truthy(pages) \/ Len(pages.a) <= 1
        THEN [dom |-> [d1 EXCEPT !.pagesSection = "none"], threw |-> FALSE, msg |-> << >>]
        ELSE LET bad == FirstThrow(pages.a)
                 n == IF bad = 0 THEN Len(pages.a) ELSE bad - 1
                 d2 == [d1 EXCEPT !.pagesSection = "block",
                                  !.pagesList = [k \in 1..n |-> PageItem(pages.a[k], k)]]
             IN  [dom |-> d2, threw |-> bad # 0,
                  msg |-> IF bad = 0 THEN << >> ELSE PageThrowMsg(pages.a[bad])]

\* The two badge labels (their dash is written "--" here).
ScannedBadge == <<"Scanned document -- OCR applied">>
TextBadge == <<"Text-based PDF -- Direct extraction">>

\* elapsed + 's', elapsed being parseFloat of a toFixed(1): tenths of a second.
ElapsedText(e) ==
    IF e % 10 = 0 THEN <<ToString(e \div 10), "s">>
    ELSE <<ToString(e \div 10), ".", ToString(e % 10), "s">>

\* updateStats(pages, conf, elapsed)
updateStats(d, pages, conf, elapsed) ==
    [d EXCEPT !.statProcessed = JsToString(pages),
              !.statSuccess = <<"100%">>,
              !.statConfidence = ConfFixed1(conf) \o <<"%">>,
              !.statTime = ElapsedText(elapsed)]

\* renderResults(data, elapsed) on the document d.
renderResults(d, data, elapsed) ==
    IF IsNullish(data)
    THEN [dom |-> d, threw |-> TRUE, msg |-> TypeErrorMsg(data)]
    ELSE LET conf == ParseFloat(Or(Or(data.average_confidence, data.confidence), Num(0)))
             pages == Or(data.page_count, Num(1))
             words == Or(data.total_words, Num(0))
             chars == Or(data.total_characters, Num(0))
             d1 == [d EXCEPT
                      !.resPages = JsToString(pages),
                      !.resWords = ToLocaleString(words),
                      !.resChars = ToLocaleString(chars),
                      !.resConf = ConfFixed1(conf) \o <<"%">>,
                      !.resConfClass = SummaryConfClass(conf),
                      !.badge = IF data.is_scanned # Undef
                                THEN (IF Truthy(data.is_scanned)
                                      THEN ScannedBadge ELSE TextBadge)
                                ELSE << >>,
                      !.resText = JsToString(Or(data.text, Str(<<"No text extracted">>)))]
         IN  renderPages(updateStats(d1, pages, conf, elapsed), data.pages)

\* The result document as the page ships it, before any rendering.
InitDom ==
    [resPages |-> << >>, resWords |-> << >>, resChars |-> << >>,
     resConf |-> << >>, resConfClass |-> "", badge |-> << >>, resText |-> << >>,
     statProcessed |-> << >>, statSuccess |-> << >>, statConfidence |-> << >>,
     statTime |-> << >>, pagesSection |-> "", pagesList |-> << >>]

\* An OcrResult and a PageResult as a response carries them; a field the
\* response leaves out reads as undefined.
Page(num, conf, words, text) ==
    [t |-> "obj", page_number |-> num, confidence |-> conf,
     word_count |-> words, text |-> text]

Doc(text, avg, conf, pageCount, words, chars, scanned, pages) ==
    [t |-> "obj", text |-> text, average_confidence |-> avg, confidence |-> conf,
     page_count |-> pageCount, total_words |-> words, total_characters |-> chars,
     is_scanned |-> scanned, pages |-> pages]

\* A two-page scanned document.
DocHello ==
    Doc(Str(<<"Hello">>), Num(925), Undef, Num(2), Num(1), Num(5), Bool(TRUE),
        Arr(<<Page(Num(1), Num(950), Num(1), Str(<<"Hello">>)),
              Page(Num(2), Num(900), Num(0), Str(<< >>))>>))

\* A one-page document with markup in its text and few fields.
DocPlain ==
    Doc(Str(<<"<", "b", ">", "&">>), Undef, Num(655), Undef, Num(1234), Undef, Undef,
        Arr(<<Page(Num(1), Num(655), Num(1234), Str(<<"<", "b", ">", "&">>))>>))

\* A blank document: its text is empty and it carries no page list.
DocBlank ==
    Doc(Str(<< >>), Num(0), Undef, Num(1), Num(0), Num(0), Bool(TRUE), Undef)

\* A document whose page list holds nulls: rendering it throws.
DocNullPages ==
    Doc(Str(<<"torn">>), Num(800), Undef, Num(2), Num(1), Num(4), Bool(FALSE),
        Arr(<<Null, Null>>))

\* -------------------------------------------------------------- responses

\* The statuses a response may carry; res.ok is true of 200..299.
Statuses == {200, 413}
Ok(status) == status >= 200 /\ status <= 299

\* How a promise of the network settles when it does not yield a value: the
\* fetch fails in transport, or the body is no JSON.
Rejected == [t |-> "rejected"]

Entry(doc) == [t |-> "obj", ocr_result |-> doc]
Body(detail, results) == [t |-> "obj", detail |-> detail, results |-> results]

Details == {Undef, Str(<< >>), Str(<<"file too large">>)}

ResultLists ==
    {Undef, Arr(<< >>), Arr(<<Entry(DocHello)>>), Arr(<<Entry(DocPlain), Entry(DocHello)>>),
     Arr(<<Entry(DocBlank)>>), Arr(<<Entry(DocNullPages)>>), Arr(<<Entry(Undef)>>)}

\* What res.json() may yield: the JSON null, an object with at most a detail,
\* or an object with at most a results member.
Bodies ==
    {Null} \cup {Body(d, Undef) : d \in Details} \cup {Body(Undef, r) : r \in ResultLists}

\* ------------------------------------------------------------------ state

VARIABLES
    selectedFiles,          \* the pending list (line 4)
    currentResult,          \* the current-result slot (line 5)
    startTime,              \* line 6
    fileListItems,          \* children of #file-list, as renderFileList builds them
    processBtnWrapDisplay,  \* style.display of #process-btn-wrap
    processBtnDisabled,     \* processBtn.disabled
    processBtnLabel,        \* the text of processBtn.innerHTML
    panelDisplay,           \* style.display of the three panels
    dom,                    \* the result elements renderResults writes
    toastMsg,               \* text of #toast-msg
    toastsShown,            \* calls of showToast by the handler that ran last
    calls,                  \* the suspended invocations of processFiles, each
                            \* with its request in flight
    now,                    \* the last reading of Date.now(), in tenths of a second
    lastEvent,              \* the handler that ran last, and its input
    clipboard,              \* the text the handler that ran last put on the system
                            \* clipboard (null: none)
    clipboardWrites,        \* the texts handed to navigator.clipboard.writeText
                            \* whose promise has not settled
    download                \* the file the handler that ran last had the browser
                            \* save (null: none)

vars ==
    <<selectedFiles, currentResult, startTime, fileListItems, processBtnWrapDisplay,
      processBtnDisabled, processBtnLabel, panelDisplay, dom, toastMsg, toastsShown,
      calls, now, lastEvent, clipboard, clipboardWrites, download>>

fileVars == <<selectedFiles, fileListItems, processBtnWrapDisplay>>
submitVars ==
    <<currentResult, startTime, processBtnDisabled, processBtnLabel, panelDisplay,
      dom, toastMsg, calls>>

\* The record of an event: the handler, its input, and for a body read the
\* status of the response it belongs to.
Event(op, arg, status) == [op |-> op, arg |-> arg, status |-> status]

DefaultLabel == "Process Document"
ProcessingLabel == "Processing..."

\* renderFileList(): the items and the display of the process action for a list.
RenderedItems(files) ==
    [k \in 1..Len(files) |->
        [name |-> files[k].name, size |-> formatSize(files[k].size), removeIndex |-> k - 1]]

RenderedWrap(files) == IF Len(files) = 0 THEN "none" ELSE "block"

\* Variant of renderFileList: an empty list hides the process action and
\* returns before the old items are cleared.
renderFileListKeepItems ==
    IF Len(selectedFiles') = 0
    THEN fileListItems' = fileListItems /\ processBtnWrapDisplay' = "none"
    ELSE /\ fileListItems' = RenderedItems(selectedFiles')
         /\ processBtnWrapDisplay' = "block"

renderFileList ==
    /\ fileListItems' = RenderedItems(selectedFiles')
    /\ processBtnWrapDisplay' = RenderedWrap(selectedFiles')

\* [...selectedFiles, ...files]
Spread(old, files) == old \o files

addFiles(files) ==
    /\ selectedFiles' = Spread(selectedFiles, files)
    /\ renderFileList

removeFile(index) ==
    /\ selectedFiles' = Splice(selectedFiles, index, 1)
    /\ renderFileList

\* Variant of showPanel: the named panel is shown and the others are left as
\* they are.
showPanelNoHide(name) ==
    [panelDisplay EXCEPT ![name] = IF name = "empty" THEN "flex" ELSE "block"]

showPanel(name) ==
    [empty |-> IF name = "empty" THEN "flex" ELSE "none",
     loading |-> IF name = "loading" THEN "block" ELSE "none",
     results |-> IF name = "results" THEN "block" ELSE "none"]

showToast(msg) ==
    /\ toastMsg' = msg
    /\ toastsShown' = 1

\* A handler that does not reach showToast.
NoToast == toastMsg' = toastMsg /\ toastsShown' = 0

\* A handler that neither writes to the clipboard nor saves a file.
NoExport ==
    /\ clipboard' = Null
    /\ download' = Null
    /\ clipboardWrites' = clipboardWrites

Init ==
    /\ selectedFiles = << >>
    /\ currentResult = Null
    /\ startTime = Null
    /\ fileListItems = << >>
    /\ processBtnWrapDisplay = ""
    /\ processBtnDisabled = FALSE
    /\ processBtnLabel = DefaultLabel
    /\ panelDisplay = [empty |-> "", loading |-> "", results |-> ""]
    /\ dom = InitDom
    /\ toastMsg = << >>
    /\ toastsShown = 0
    /\ calls = << >>
    /\ now = 0
    /\ lastEvent = Event("load", 0, 0)
    /\ clipboard = Null
    /\ clipboardWrites = << >>
    /\ download = Null

\* ------------------------------------------------------------ file events

\* The drop handler (the list is kept within MaxFiles).
Drop(files) ==
    LET kept == SelectSeq(files, DropAccepts)
    IN  /\ Len(selectedFiles) + Len(kept) <= MaxFiles
        /\ IF Len(kept) # 0 THEN addFiles(kept) ELSE UNCHANGED fileVars
        /\ lastEvent' = Event("drop", 0, 0)
        /\ toastsShown' = 0
    /\ UNCHANGED <<submitVars, now>>
    /\ NoExport

\* The change handler of the file dialog.
Change(files) ==
    /\ Len(selectedFiles) + Len(files) <= MaxFiles
    /\ IF Len(files) # 0 THEN addFiles(files) ELSE UNCHANGED fileVars
    /\ lastEvent' = Event("change", 0, 0)
    /\ toastsShown' = 0
    /\ UNCHANGED <<submitVars, now>>
    /\ NoExport

\* A click on the remove control of the k-th rendered item.
ClickRemove(k) ==
    /\ k \in 1..Len(fileListItems)
    /\ removeFile(fileListItems[k].removeIndex)
    /\ lastEvent' = Event("removeFile", fileListItems[k].removeIndex, 0)
    /\ toastsShown' = 0
    /\ UNCHANGED <<submitVars, now>>
    /\ NoExport

\* The indices removeFile is called with: every index of a list, the one just
\* past the longest list, and negative ones within and beyond its length.
Indices == 0..MaxFiles \cup {0 - 1, 0 - MaxFiles - 1}

\* removeFile is a global function: a call with any index.
RemoveFile(index) ==
    /\ removeFile(index)
    /\ lastEvent' = Event("removeFile", index, 0)
    /\ toastsShown' = 0
    /\ UNCHANGED <<submitVars, now>>
    /\ NoExport

\* What a reading of Date.now() may give: the clock does not run backwards.
Readings == now..MaxTime

\* ------------------------------------------------------------- submission

\* The messages of the errors the platform raises (their wording is the
\* engine's): a fetch that fails in transport, a body that is no JSON.
FetchFailedMsg == <<"Failed to fetch">>
SyntaxErrorMsg == <<"Unexpected token in JSON">>
NoResultsMsg == <<"No OCR results returned from server">>

\* Variant of processFilesBegin: no early return on an empty list.
processFilesBeginNoGuard(t) ==
    /\ Len(calls) < MaxCalls
    /\ processBtnDisabled' = TRUE
    /\ processBtnLabel' = ProcessingLabel
    /\ panelDisplay' = showPanel("loading")
    /\ startTime' = Num(t)
    /\ now' = t
    /\ calls' = Append(calls, [pc |-> "fetch", status |-> 0])
    /\ UNCHANGED <<currentResult, dom, toastMsg>>

\* Variant of processFilesBegin: the trigger control is left enabled.
processFilesBeginNoDisable(t) ==
    IF Len(selectedFiles) = 0
    THEN UNCHANGED <<submitVars, now>>
    ELSE /\ Len(calls) < MaxCalls
         /\ processBtnLabel' = ProcessingLabel
         /\ panelDisplay' = showPanel("loading")
         /\ startTime' = Num(t)
         /\ now' = t
         /\ calls' = Append(calls, [pc |-> "fetch", status |-> 0])
         /\ UNCHANGED <<processBtnDisabled, currentResult, dom, toastMsg>>

\* processFiles up to its first await (lines 100-131), t being what Date.now()
\* gives at line 118.
processFilesBegin(t) ==
    IF Len(selectedFiles) = 0
    THEN UNCHANGED <<submitVars, now>>
    ELSE /\ Len(calls) < MaxCalls
         /\ processBtnDisabled' = TRUE
         /\ processBtnLabel' = ProcessingLabel
         /\ panelDisplay' = showPanel("loading")
         /\ startTime' = Num(t)
         /\ now' = t
         /\ calls' = Append(calls, [pc |-> "fetch", status |-> 0])
         /\ UNCHANGED <<currentResult, dom, toastMsg>>

\* A click on the trigger control, which the page binds to processFiles.  A
\* disabled button dispatches no click, nor does one inside a hidden wrapper.
ClickProcess ==
    /\ ~processBtnDisabled
    /\ processBtnWrapDisplay # "none"
    /\ \E t \in Readings : processFilesBegin(t)
    /\ toastsShown' = 0
    /\ lastEvent' = Event("processFiles", 0, 0)
    /\ UNCHANGED <<fileVars>>
    /\ NoExport

\* Variant of Catch: the notification is shown and the panel left as it is.
CatchKeepPanel(msg) ==
    /\ showToast(<<"Error: ">> \o msg)
    /\ panelDisplay' = panelDisplay

\* The catch block (lines 154-156).
Catch(msg) ==
    /\ showToast(<<"Error: ">> \o msg)
    /\ panelDisplay' = showPanel("empty")

\* Variant of Finally: the label is restored and the control left disabled.
FinallyKeepDisabled ==
    /\ processBtnDisabled' = processBtnDisabled
    /\ processBtnLabel' = DefaultLabel

\* The finally block (lines 157-165).
Finally ==
    /\ processBtnDisabled' = FALSE
    /\ processBtnLabel' = DefaultLabel

\* The message of the error lines 134-135 raise for a response that is not ok,
\* out being what res.json() settled with.
ErrorMessage(status, out) ==
    LET err == IF out = Rejected THEN Body(Undef, Undef) ELSE out
    IN  IF IsNullish(err) THEN TypeErrorMsg(err)
        ELSE JsToString(Or(err.detail, Str(<<"HTTP ", ToString(status)>>)))

\* Variant of AfterBody: the last document of the response is stored, the
\* first one rendered.
AfterBodyStoreLast(call, out, d, elapsed) ==
    LET Threw(msg) ==
            [threw |-> TRUE, msg |-> msg, stored |-> FALSE, doc |-> Undef, dom |-> d]
    IN  IF call.pc = "errjson" THEN Threw(ErrorMessage(call.status, out))
        ELSE IF out = Rejected THEN Threw(SyntaxErrorMsg)
        ELSE IF IsNullish(out) THEN Threw(TypeErrorMsg(out))
        ELSE IF ~Truthy(out.results) \/ Len(out.results.a) = 0 THEN Threw(NoResultsMsg)
        ELSE LET firstDoc == out.results.a[1].ocr_result
                 r == renderResults(d, firstDoc, elapsed)
             IN  [threw |-> r.threw, msg |-> r.msg, stored |-> TRUE,
                  doc |-> out.results.a[Len(out.results.a)].ocr_result, dom |-> r.dom]

\* The try block from the body read on (lines 133-152), out being what
\* res.json() settled with: whether it threw and with what message, whether it
\* reached lines 147-149 (read the clock, assigned currentResult) and with what
\* result, and the result document it leaves.
AfterBody(call, out, d, elapsed) ==
    LET Threw(msg) ==
            [threw |-> TRUE, msg |-> msg, stored |-> FALSE, doc |-> Undef, dom |-> d]
    IN  IF call.pc = "errjson" THEN Threw(ErrorMessage(call.status, out))
        ELSE IF out = Rejected THEN Threw(SyntaxErrorMsg)
        ELSE IF IsNullish(out) THEN Threw(TypeErrorMsg(out))
        ELSE IF ~Truthy(out.results) \/ Len(out.results.a) = 0 THEN Threw(NoResultsMsg)
        ELSE LET firstDoc == out.results.a[1].ocr_result
                 r == renderResults(d, firstDoc, elapsed)
             IN  [threw |-> r.threw, msg |-> r.msg, stored |-> TRUE,
                  doc |-> firstDoc, dom |-> r.dom]

RemoveAt(s, i) == [k \in 1..(Len(s) - 1) |-> IF k < i THEN s[k] ELSE s[k + 1]]

\* The fetch of the i-th suspended invocation settles: it rejects, or it
\* yields a response with a status (lines 128-138).
FetchSettle(i, out) ==
    /\ i \in 1..Len(calls)
    /\ calls[i].pc = "fetch"
    /\ IF out = Rejected
       THEN /\ Catch(FetchFailedMsg)
            /\ Finally
            /\ calls' = RemoveAt(calls, i)
       ELSE /\ calls' = [calls EXCEPT ![i] =
                            [pc |-> IF Ok(out.status) THEN "json" ELSE "errjson",
                             status |-> out.status]]
            /\ NoToast
            /\ UNCHANGED <<processBtnDisabled, processBtnLabel, panelDisplay>>
    /\ lastEvent' = Event("fetchSettled", out, 0)
    /\ UNCHANGED <<currentResult, startTime, dom, fileVars, now>>
    /\ NoExport

\* Variant of BodySettle: the pending list is emptied once the response has
\* been handled.
BodySettleClearList(i, out, t) ==
    /\ i \in 1..Len(calls)
    /\ calls[i].pc \in {"json", "errjson"}
    /\ LET r == AfterBody(calls[i], out, dom, t - startTime.n)
       IN  /\ currentResult' = IF r.stored THEN r.doc ELSE currentResult
           /\ now' = IF r.stored THEN t ELSE now
           /\ dom' = r.dom
           /\ IF r.threw
              THEN Catch(r.msg)
              ELSE /\ panelDisplay' = showPanel("results")
                   /\ NoToast
    /\ Finally
    /\ calls' = RemoveAt(calls, i)
    /\ lastEvent' = Event("bodySettled", out, calls[i].status)
    /\ selectedFiles' = << >>
    /\ renderFileList
    /\ UNCHANGED startTime
    /\ NoExport

\* The body read of the i-th suspended invocation settles, and the rest of
\* processFiles runs (lines 134-165), t being what Date.now() gives at line
\* 147 if that line is reached.
BodySettle(i, out, t) ==
    /\ i \in 1..Len(calls)
    /\ calls[i].pc \in {"json", "errjson"}
    /\ LET r == AfterBody(calls[i], out, dom, t - startTime.n)
       IN  /\ currentResult' = IF r.stored THEN r.doc ELSE currentResult
           /\ now' = IF r.stored THEN t ELSE now
           /\ dom' = r.dom
           /\ IF r.threw
              THEN Catch(r.msg)
              ELSE /\ panelDisplay' = showPanel("results")
                   /\ NoToast
    /\ Finally
    /\ calls' = RemoveAt(calls, i)
    /\ lastEvent' = Event("bodySettled", out, calls[i].status)
    /\ UNCHANGED <<startTime, fileVars>>
    /\ NoExport

Responses == {Rejected} \cup {[t |-> "response", status |-> st] : st \in Statuses}

\* ----------------------------------------------------- copy and download

\* currentResult.text || ''
ExportText == JsToString(Or(currentResult.text, Str(<< >>)))

\* copyText(), called from the copy control (lines 254-258): the text is
\* handed to the clipboard, and the notification waits for the promise.
CopyText ==
    /\ IF ~Truthy(currentResult)
       THEN clipboardWrites' = clipboardWrites
       ELSE /\ Len(clipboardWrites) < MaxCopies
            /\ clipboardWrites' = Append(clipboardWrites, ExportText)
    /\ clipboard' = Null
    /\ download' = Null
    /\ NoToast
    /\ lastEvent' = Event("copyText", 0, 0)
    /\ UNCHANGED <<fileVars, currentResult, startTime, processBtnDisabled,
                   processBtnLabel, panelDisplay, dom, calls, now>>

\* The promise of the i-th pending write settles: the text is on the clipboard
\* and the then-callback shows the notification, or the write was refused and
\* the rejection is handled by nobody.
ClipboardSettle(i, ok) ==
    /\ i \in 1..Len(clipboardWrites)
    /\ IF ok
       THEN /\ clipboard' = Str(clipboardWrites[i])
            /\ showToast(<<"Copied to clipboard!">>)
       ELSE /\ clipboard' = Null
            /\ NoToast
    /\ clipboardWrites' = RemoveAt(clipboardWrites, i)
    /\ download' = Null
    /\ lastEvent' = Event("clipboardSettled", ok, 0)
    /\ UNCHANGED <<fileVars, currentResult, startTime, processBtnDisabled,
                   processBtnLabel, panelDisplay, dom, calls, now>>

\* Variant of DownloadText: no early return on an empty slot, an empty file is
\* saved.
DownloadTextNoGuard ==
    /\ download' = [name |-> <<"ocr-result.txt">>,
                    text |-> IF Truthy(currentResult) THEN ExportText ELSE << >>]
    /\ showToast(<<"Download started!">>)
    /\ clipboard' = Null
    /\ lastEvent' = Event("downloadText", 0, 0)
    /\ UNCHANGED <<fileVars, currentResult, startTime, processBtnDisabled,
                   processBtnLabel, panelDisplay, dom, calls, now, clipboardWrites>>

\* downloadText(), called from the download control (lines 260-267).
DownloadText ==
    /\ IF ~Truthy(currentResult)
       THEN /\ download' = Null
            /\ NoToast
       ELSE /\ download' = [name |-> <<"ocr-result.txt">>, text |-> ExportText]
            /\ showToast(<<"Download started!">>)
    /\ clipboard' = Null
    /\ lastEvent' = Event("downloadText", 0, 0)
    /\ UNCHANGED <<fileVars, currentResult, startTime, processBtnDisabled,
                   processBtnLabel, panelDisplay, dom, calls, now, clipboardWrites>>

Next ==
    \/ \E files \in Batches : Drop(files)
    \/ \E files \in Batches : Change(files)
    \/ \E k \in 1..MaxFiles : ClickRemove(k)
    \/ \E index \in Indices : RemoveFile(index)
    \/ ClickProcess
    \/ \E i \in 1..MaxCalls : \E out \in Responses : FetchSettle(i, out)
    \/ \E i \in 1..MaxCalls : \E out \in {Rejected} \cup Bodies :
            \E t \in Readings : BodySettle(i, out, t)

Spec == Init /\ [][Next]_vars

\* A response that has arrived has its body read to the end (or to a parse
\* error), and the continuation of the await then runs.
BodySettles ==
    \E i \in 1..MaxCalls : \E out \in {Rejected} \cup Bodies :
        \E t \in Readings : BodySettle(i, out, t)

LiveSpec == Spec /\ WF_vars(BodySettles)

\* The client with its copy and download controls.
ExportNext ==
    \/ Next
    \/ CopyText
    \/ \E i \in 1..MaxCopies : \E ok \in BOOLEAN : ClipboardSettle(i, ok)
    \/ DownloadText

ExportSpec == Init /\ [][ExportNext]_vars

\* ------------------------------------------------------ confidence tiers

\* Largest confidence drawn, in tenths of a percent.
MaxConfTenths == 1000

\* A two-page result whose aggregate and page confidences are all c.
TierDoc(c) ==
    Doc(Str(<<"text">>), Num(c), Undef, Num(2), Num(2), Num(8), Undef,
        Arr(<<Page(Num(1), Num(c), Num(1), Str(<<"text">>)),
              Page(Num(2), Num(c), Num(1), Str(<<"text">>))>>))

\* A confidence is drawn ...
TierInit ==
    /\ selectedFiles = << >>
    /\ currentResult = Null
    /\ startTime = Null
    /\ fileListItems = << >>
    /\ processBtnWrapDisplay = ""
    /\ processBtnDisabled = FALSE
    /\ processBtnLabel = DefaultLabel
    /\ panelDisplay = [empty |-> "", loading |-> "", results |-> ""]
    /\ dom = InitDom
    /\ toastMsg = << >>
    /\ toastsShown = 0
    /\ calls = << >>
    /\ now = 0
    /\ \E c \in 0..MaxConfTenths : lastEvent = Event("confidence", c, 0)
    /\ clipboard = Null
    /\ clipboardWrites = << >>
    /\ download = Null

\* ... and a result carrying it is rendered.
RenderTiers ==
    /\ lastEvent.op = "confidence"
    /\ dom' = renderResults(dom, TierDoc(lastEvent.arg), 0).dom
    /\ lastEvent' = Event("tiered", lastEvent.arg, 0)
    /\ UNCHANGED <<fileVars, currentResult, startTime, processBtnDisabled,
                   processBtnLabel, panelDisplay, toastMsg, toastsShown, calls, now>>
    /\ NoExport

TierSpec == TierInit /\ [][RenderTiers]_vars

\* -------------------------------------------------- rendering of results

\* The page lists a result may carry: none, an empty one, and one to three pages.
RenderPage1 == Page(Num(1), Num(950), Num(12), Str(<<"one">>))
RenderPage2 == Page(Num(2), Num(655), Undef, Str(<< >>))
RenderPage3 == Page(Undef, Undef, Num(3), Str(<<"a", "<", "b">>))

RenderPageLists ==
    {Undef, Arr(<< >>), Arr(<<RenderPage1>>), Arr(<<RenderPage1, RenderPage2>>),
     Arr(<<RenderPage1, RenderPage2, RenderPage3>>)}

\* The results rendered.  In the first family each summary field is absent,
\* present with the value 0 (null for the flag), or present with another
\* value; in the second the flag and the page list vary.
RenderDocs ==
    {Doc(Str(<<"Hello">>), avg, conf, pageCount, counts[1], counts[2], scanned,
         Arr(<<RenderPage1, RenderPage2>>)) :
        avg \in {Undef, Num(0), Num(925)},
        conf \in {Undef, Num(655)},
        pageCount \in {Undef, Num(0), Num(3)},
        counts \in {<<Undef, Undef>>, <<Num(1234), Num(0)>>},
        scanned \in {Undef, Null, Bool(TRUE), Bool(FALSE)}}
    \cup
    {Doc(Str(<<"Hello">>), Num(925), Undef, Num(3), Num(15), Num(7), scanned, pages) :
        scanned \in {Undef, Null, Bool(TRUE), Bool(FALSE)},
        pages \in RenderPageLists}

\* renderResults(doc, 0), as a submission that succeeds calls it (line 151).
Render(doc) ==
    /\ ~renderResults(dom, doc, 0).threw
    /\ dom' = renderResults(dom, doc, 0).dom
    /\ lastEvent' = Event("renderResults", doc, 0)
    /\ UNCHANGED <<fileVars, currentResult, startTime, processBtnDisabled,
                   processBtnLabel, panelDisplay, toastMsg, toastsShown, calls, now>>
    /\ NoExport

RenderNext == \E doc \in RenderDocs : Render(doc)

\* One result after another is rendered into the same document.
RenderSpec == Init /\ [][RenderNext]_vars

\* ------------------------------------------------- escaping of page text

\* Longest text drawn, in tokens.
MaxTextLen == 3

\* The tokens of a text: the three characters escapeHtml replaces, a letter,
\* and two chunks that read as the tail of a character reference.
TextTokens == {"&", "<", ">", "a", "amp;", "lt;"}

Texts == UNION {[1..n -> TextTokens] : n \in 0..MaxTextLen}

\* A two-page result whose first page carries the text s as its text, its
\* page_number and its word_count.
EscapeDoc(s) ==
    Doc(Str(s), Num(925), Undef, Num(2), Num(2), Num(8), Undef,
        Arr(<<Page(Str(s), Num(950), Str(s), Str(s)),
              Page(Num(2), Num(900), Num(1), Str(<<"text">>))>>))

\* A text is drawn and a result carrying it is rendered into the fresh page.
RenderText(s) ==
    /\ lastEvent.op = "load"
    /\ dom' = renderResults(dom, EscapeDoc(s), 0).dom
    /\ lastEvent' = Event("renderPages", s, 0)
    /\ UNCHANGED <<fileVars, currentResult, startTime, processBtnDisabled,
                   processBtnLabel, panelDisplay, toastMsg, toastsShown, calls, now>>
    /\ NoExport

EscapeNext == \E s \in Texts : RenderText(s)

EscapeSpec == Init /\ [][EscapeNext]_vars

\* ----------------------------------------------------------------- claims

\* The list old without its entry at the 0-based position index.
Without(old, index) ==
    [k \in 1..(Len(old) - 1) |-> IF k <= index THEN old[k] ELSE old[k + 1]]

C2_EmptySubmitIsNoOp ==
    [][ (ClickProcess /\ Len(selectedFiles) = 0)
            => UNCHANGED <<calls, panelDisplay, processBtnDisabled, processBtnLabel,
                           currentResult, startTime, dom, toastMsg>>
      ]_vars

\* processFiles has just run on an empty list.
C2_Witness ==
    /\ lastEvent.op = "processFiles"
    /\ Len(selectedFiles) = 0
    /\ calls = << >>

\* C3: at most one request is in flight, and while one is the trigger control
\* is disabled, so no second submission can start.
C3_OneRequestInFlight ==
    /\ Len(calls) <= 1
    /\ calls # << >> => processBtnDisabled

\* A response is pending while the user has emptied the list again.
C3_Witness ==
    /\ Len(calls) = 1
    /\ calls[1].pc = "json"
    /\ lastEvent.op = "removeFile"
    /\ selectedFiles = << >>

\* A suspended invocation of processFiles ends in this step.
Finishes == Len(calls') < Len(calls)

\* Some response has arrived and its body is being read.
ResponseArrived == \E i \in 1..Len(calls) : calls[i].pc \in {"json", "errjson"}

Released == ~processBtnDisabled /\ processBtnLabel = DefaultLabel

\* C4: every submission whose request settles re-enables the trigger control
\* and restores its default label: each step that ends an invocation (after a
\* transport error, a status that is not ok, missing results, an unparsable
\* body, a rendering exception or a success) leaves them so, and an arrived
\* response is always followed by such a step.
C4_TriggerReleased ==
    /\ [][Finishes => (~processBtnDisabled' /\ processBtnLabel' = DefaultLabel)]_vars
    /\ (ResponseArrived ~> Released)

\* The result held nulls for pages, rendering threw, and the control is free.
C4_Witness ==
    /\ lastEvent = Event("bodySettled", Body(Undef, Arr(<<Entry(DocNullPages)>>)), 200)
    /\ toastsShown = 1
    /\ Released

\* The kind of failure an event is: a transport error, a status that is not
\* ok, or a response that is ok with results missing or empty.
FailureKind(ev) ==
    IF ev.op = "fetchSettled" /\ ev.arg = Rejected THEN "transport"
    ELSE IF ev.op = "bodySettled" /\ ~Ok(ev.status) THEN "status"
    ELSE IF /\ ev.op = "bodySettled"
            /\ Ok(ev.status)
            /\ ev.arg.t = "obj"
            /\ (ev.arg.results = Undef \/ ev.arg.results = Arr(<< >>))
         THEN "noresults"
    ELSE "none"

\* C5: a submission that fails in one of the three ways shows exactly one
\* notification and ends on the 'empty' panel alone; apart from the text of
\* the notification the state it leaves does not depend on the kind.
C5_FailureShape ==
    [][ (Finishes /\ FailureKind(lastEvent') # "none")
            => /\ toastsShown' = 1
               /\ Head(toastMsg') = "Error: "
               /\ panelDisplay' = [empty |-> "flex", loading |-> "none", results |-> "none"]
               /\ ~processBtnDisabled'
               /\ processBtnLabel' = DefaultLabel
               /\ UNCHANGED <<currentResult, dom, startTime, fileVars>>
      ]_vars

\* A response that was ok carried an empty results array.
C5_Witness ==
    /\ lastEvent = Event("bodySettled", Body(Undef, Arr(<< >>)), 200)
    /\ toastsShown = 1
    /\ panelDisplay.empty = "flex"

\* The body carries a detail message (a text that is not empty).
HasDetail(body) == body.t = "obj" /\ Truthy(body.detail)

\* C6: the notification reads 'Error: ' and then the body's detail when the
\* response is not ok and carries one, else 'HTTP <status>' when it is not ok,
\* else the message of the error raised.
C6_FailureReason ==
    /\ (lastEvent.op = "bodySettled" /\ ~Ok(lastEvent.status))
            => toastMsg = <<"Error: ">> \o
                    (IF HasDetail(lastEvent.arg) THEN lastEvent.arg.detail.s
                     ELSE <<"HTTP ", ToString(lastEvent.status)>>)
    /\ FailureKind(lastEvent) = "transport"
            => toastMsg = <<"Error: ">> \o FetchFailedMsg
    /\ FailureKind(lastEvent) = "noresults"
            => toastMsg = <<"Error: ", "No OCR results returned from server">>

\* The slot holds the same thing: the same result, or nothing (null or
\* undefined) both times.
SameSlot(a, b) == a = b \/ (IsNullish(a) /\ IsNullish(b))

\* C7: the slot changes only when a submission succeeds (the 'results' panel
\* is shown), and then to the first document's OCR result; a submission that
\* fails leaves in it what it held.
C7_SlotFromLastSuccess ==
    [][ Finishes
            => IF panelDisplay'.results = "block"
               THEN currentResult' = lastEvent'.arg.results.a[1].ocr_result
               ELSE SameSlot(currentResult, currentResult')
      ]_vars

\* C8: removeFile with an index below 0 or not below the length leaves the
\* pending list as it was.
C8_OutOfBoundsIsNoOp ==
    [][ \A index \in Indices :
            ((index < 0 \/ index >= Len(selectedFiles)) /\ RemoveFile(index))
                => selectedFiles' = selectedFiles
      ]_vars

\* C9: once addFiles or removeFile has run, the rendered list has one item per
\* pending file, in order, each remove control carrying its file's index, and
\* the process action is shown exactly when the list is not empty.
C9_ListRendered ==
    processBtnWrapDisplay # ""
        => /\ Len(fileListItems) = Len(selectedFiles)
           /\ \A k \in 1..Len(selectedFiles) :
                /\ fileListItems[k].name = selectedFiles[k].name
                /\ fileListItems[k].removeIndex = k - 1
           /\ processBtnWrapDisplay = (IF Len(selectedFiles) > 0 THEN "block" ELSE "none")

\* The first of two files was removed; the item left now carries index 0.
C9_Witness ==
    /\ lastEvent = Event("removeFile", 0, 0)
    /\ selectedFiles = <<ImgFile>>
    /\ Len(fileListItems) = 1
    /\ fileListItems[1].removeIndex = 0
    /\ processBtnWrapDisplay = "block"

\* The tier of a class name, and the tier the thresholds give a confidence.
TierOfClass(class) ==
    CASE class \in {"green", "high"} -> "good"
      [] class \in {"yellow", "mid"} -> "warning"
      [] class \in {"red", "low"} -> "critical"
      [] OTHER -> "none"

ExpectedTier(c) ==
    IF c >= 900 THEN "good" ELSE IF c >= 700 THEN "warning" ELSE "critical"

\* C10: the aggregate confidence and each page's confidence get the tier of the
\* same thresholds: good from 90, warning from 70 to below 90, critical below.
C10_SameTiering ==
    lastEvent.op = "tiered"
        => /\ TierOfClass(dom.resConfClass) = ExpectedTier(lastEvent.arg)
           /\ Len(dom.pagesList) = 2
           /\ \A k \in 1..Len(dom.pagesList) :
                TierOfClass(dom.pagesList[k].confClass) = ExpectedTier(lastEvent.arg)

\* 89.9 was rendered: a warning in the summary and on the pages.
C10_Witness ==
    /\ lastEvent = Event("tiered", 899, 0)
    /\ dom.resConfClass = "yellow"
    /\ dom.pagesList[1].confClass = "mid"

\* The pages of a result, none when it carries no list.
PagesOf(doc) == IF doc.pages.t = "arr" THEN doc.pages.a ELSE << >>

\* C11: after each rendering of a result the per-page section is shown exactly
\* when the result has more than one page, and then holds one entry per page,
\* in order; a result with no list, no page or one page hides the section and
\* leaves no entry of an earlier result in it.
C11_PagesSection ==
    lastEvent.op = "renderResults"
        => LET pages == PagesOf(lastEvent.arg)
           IN  /\ dom.pagesSection = (IF Len(pages) > 1 THEN "block" ELSE "none")
               /\ Len(dom.pagesList) = (IF Len(pages) > 1 THEN Len(pages) ELSE 0)
               /\ \A k \in 1..Len(dom.pagesList) :
                    /\ dom.pagesList[k].bodyId = <<"page-body-", ToString(k - 1)>>
                    /\ dom.pagesList[k].numHtml =
                            (IF pages[k].page_number = Undef
                             THEN <<ToString(k)>>
                             ELSE <<ToString(pages[k].page_number.n)>>)
                    /\ dom.pagesList[k].wordsHtml =
                            (IF pages[k].word_count = Undef
                             THEN <<"0">>
                             ELSE <<ToString(pages[k].word_count.n)>>)

\* A result of one page was rendered: the section is hidden and empty.
C11_Witness ==
    /\ lastEvent.op = "renderResults"
    /\ lastEvent.arg.pages = Arr(<<RenderPage1>>)
    /\ dom.pagesSection = "none"
    /\ dom.pagesList = << >>

RECURSIVE Unescape(_)
\* What markup text reads as once its character references are decoded: '&'
\* followed by 'amp;', 'lt;' or 'gt;' is the character named.
Unescape(s) ==
    IF s = << >> THEN << >>
    ELSE IF Head(s) = "&" /\ Len(s) >= 2 /\ s[2] \in {"amp;", "lt;", "gt;"}
         THEN <<CASE s[2] = "amp;" -> "&" [] s[2] = "lt;" -> "<" [] OTHER -> ">">>
                  \o Unescape(Tail(Tail(s)))
         ELSE <<Head(s)>> \o Unescape(Tail(s))

\* The text renderPages escapes for a page whose text is s.
PageTextOf(s) == IF s = << >> THEN <<"No text">> ELSE s

\* C12: the escaped page text holds no '<' and no '>', each '&' in it begins
\* one of '&amp;', '&lt;', '&gt;', and it decodes back to exactly the text that
\* was escaped (an input '<' gives '&lt;', not '&amp;lt;').
C12_EscapeRoundTrip ==
    lastEvent.op = "renderPages"
        => LET out == dom.pagesList[1].textHtml
           IN  /\ \A k \in 1..Len(out) : out[k] \notin {"<", ">"}
               /\ \A k \in 1..Len(out) :
                    out[k] = "&" => (k < Len(out) /\ out[k + 1] \in {"amp;", "lt;", "gt;"})
               /\ Unescape(out) = PageTextOf(lastEvent.arg)

\* The text '<&amp;' was escaped to '&lt;&amp;amp;'.
C12_Witness ==
    /\ lastEvent = Event("renderPages", <<"<", "&", "amp;">>, 0)
    /\ dom.pagesList[1].textHtml = <<"&", "lt;", "&", "amp;", "amp;">>

\* The text holds no character that opens or closes a tag.
NoMarkup(html) == \A k \in 1..Len(html) : html[k] \notin {"<", ">"}

\* C13: every value of the result that is inserted into markup is escaped
\* first, a page's page_number and word_count as well as its text, so that no
\* tag of a response reaches the page entries.
C13_AllFieldsEscaped ==
    lastEvent.op = "renderPages"
        => \A k \in 1..Len(dom.pagesList) :
                /\ NoMarkup(dom.pagesList[k].textHtml)
                /\ NoMarkup(dom.pagesList[k].numHtml)
                /\ NoMarkup(dom.pagesList[k].wordsHtml)

\* C14: the badge is rendered exactly when the result's is_scanned is a
\* boolean: the scanned label for true, the text label for false; when the
\* field is absent or null there is no badge, whatever was rendered before.
C14_BadgeOnlyForBoolean ==
    lastEvent.op = "renderResults"
        => dom.badge = (IF lastEvent.arg.is_scanned = Bool(TRUE) THEN ScannedBadge
                        ELSE IF lastEvent.arg.is_scanned = Bool(FALSE) THEN TextBadge
                        ELSE << >>)

\* The value of a field, or a default when the field is absent.
Present(v, default) == IF v = Undef THEN default ELSE v

\* A confidence in tenths as the summary prints it.
Percent(n) == <<ToString(n \div 10), ".", ToString(n % 10), "%">>

\* C17: the summary shows average_confidence when present, else confidence,
\* else 0; page_count when present, else 1; the word and character counts when
\* present, else 0 -- a present 0 included.
C17_SummaryDefaults ==
    lastEvent.op = "renderResults"
        => LET data == lastEvent.arg
           IN  /\ dom.resConf =
                    Percent(Present(data.average_confidence,
                                    Present(data.confidence, Num(0))).n)
               /\ dom.resPages = <<ToString(Present(data.page_count, Num(1)).n)>>
               /\ dom.resWords = ToLocaleString(Present(data.total_words, Num(0)))
               /\ dom.resChars = ToLocaleString(Present(data.total_characters, Num(0)))

\* C16: no step of a submission (its start, the arrival of the response, the
\* handling of the body) changes the pending list or its rendering; between
\* those steps the list changes by the user's file events alone, and what they
\* did stands when the response is handled.
C16_SubmissionKeepsList ==
    [][ (lastEvent'.op \in {"processFiles", "fetchSettled", "bodySettled"})
            => UNCHANGED <<selectedFiles, fileListItems, processBtnWrapDisplay>>
      ]_vars

\* A submission has succeeded while the list it was started from has been
\* emptied by the user: the list is still empty.
C16_Witness ==
    /\ lastEvent.op = "bodySettled"
    /\ panelDisplay.results = "block"
    /\ selectedFiles = << >>
    /\ fileListItems = << >>

\* The MIME types a drop lets in.
IsPdfOrImage(f) == f.type = <<"application", "pdf">> \/ Head(f.type) = "image"

\* C18: a drop appends exactly its files of type application/pdf or image/*
\* and, when it has none, leaves the list and its rendering as they were; the
\* file dialog appends every chosen file whatever its type.
C18_DropFiltersDialogDoesNot ==
    [][ /\ \A files \in Batches :
            Drop(files)
                => /\ selectedFiles' = selectedFiles \o SelectSeq(files, IsPdfOrImage)
                   /\ (\A k \in 1..Len(files) : ~IsPdfOrImage(files[k]))
                        => UNCHANGED <<selectedFiles, fileListItems, processBtnWrapDisplay>>
        /\ \A files \in Batches :
            Change(files)
                => /\ Len(selectedFiles') = Len(selectedFiles) + Len(files)
                   /\ \A k \in 1..Len(files) :
                        selectedFiles'[Len(selectedFiles) + k] = files[k]
      ]_vars

\* A text file chosen in the dialog is pending, and a drop has added a PDF.
C18_Witness ==
    /\ lastEvent.op = "drop"
    /\ selectedFiles = <<TxtFile, PdfFile>>

\* The panel has been made visible by showPanel.
Visible(p) == panelDisplay[p] \in {"block", "flex"}

\* C19: between handlers the 'loading' panel is visible exactly when the
\* trigger control is disabled, exactly when one request is in flight; and
\* once a submission has started exactly one of the three panels is visible.
C19_LoadingIffBusy ==
    /\ Visible("loading") <=> processBtnDisabled
    /\ processBtnDisabled <=> Len(calls) = 1
    /\ startTime # Null
            => Cardinality({p \in {"empty", "loading", "results"} : Visible(p)}) = 1

\* A response that is not ok has arrived and the user has chosen more files:
\* the request is still in flight behind the 'loading' panel.
C19_Witness ==
    /\ lastEvent.op = "change"
    /\ Len(calls) = 1
    /\ calls[1].pc = "errjson"
    /\ Visible("loading")
    /\ processBtnDisabled

\* The slot holds no result.
SlotEmpty == currentResult \in {Null, Undef}

\* The text of the result in the slot, empty when the result has none.
SlotText == IF currentResult.text.t = "str" THEN currentResult.text.s ELSE << >>

\* C15: with an empty slot copyText and downloadText put nothing on the
\* clipboard, save no file and show no notification; with a result in the slot
\* copy hands exactly its text to the clipboard, which holds it once the write
\* is done, and download saves ocr-result.txt with exactly that text; neither
\* touches the slot, the pending list or the panels.
C15_ExportCurrentText ==
    [][ /\ (CopyText /\ SlotEmpty)
            => /\ clipboardWrites' = clipboardWrites
               /\ clipboard' = Null /\ download' = Null /\ toastsShown' = 0
        /\ (CopyText /\ ~SlotEmpty)
            => /\ clipboardWrites' = Append(clipboardWrites, SlotText)
               /\ download' = Null
        /\ (lastEvent'.op = "clipboardSettled")
            => /\ \E i \in 1..Len(clipboardWrites) :
                    IF lastEvent'.arg
                    THEN clipboard' = Str(clipboardWrites[i]) /\ toastsShown' = 1
                    ELSE clipboard' = Null /\ toastsShown' = 0
               /\ download' = Null
        /\ (DownloadText /\ SlotEmpty)
            => /\ clipboardWrites' = clipboardWrites
               /\ clipboard' = Null /\ download' = Null /\ toastsShown' = 0
        /\ (DownloadText /\ ~SlotEmpty)
            => /\ download' = [name |-> <<"ocr-result.txt">>, text |-> SlotText]
               /\ clipboard' = Null
               /\ clipboardWrites' = clipboardWrites
        /\ (lastEvent'.op \in {"copyText", "clipboardSettled", "downloadText"})
            => UNCHANGED <<currentResult, selectedFiles, fileListItems, panelDisplay, dom>>
      ]_vars

\* The text of the displayed result is on the clipboard.
C15_Witness ==
    /\ lastEvent = Event("clipboardSettled", TRUE, 0)
    /\ panelDisplay.results = "block"
    /\ currentResult = DocPlain
    /\ clipboard = Str(<<"<", "b", ">", "&">>)

\* The full text as the results panel shows it for a result whose text is s.
ShownText(s) == IF s = << >> THEN <<"No text extracted">> ELSE s

====
